---- MODULE Spec2Model ----
(***************************************************************************)
(* Model of the GitHub service of create-effect-app                        *)
(* (packages/create-effect-app/src/GitHub.ts): the repo-spec parser        *)
(* parseGitHubSpec and the three materialization entry points              *)
(* downloadFromRepo, downloadTemplate and downloadExample.                 *)
(*                                                                         *)
(* A JavaScript string is a sequence of one-character strings, so that     *)
(* trim, startsWith, slice, lastIndexOf, split, filter(Boolean) and join   *)
(* are computed character by character as the code computes them.          *)
(***************************************************************************)
EXTENDS Integers, Sequences, FiniteSets, TLC

VARIABLES
    op,        \* which entry point runs: "repo", "template" or "example"
    input,     \* how the argument string was put together (its components)
    spec,      \* downloadFromRepo: the spec string; otherwise the catalog name
    hasLocal,  \* result of fs.exists(localPath) (downloadTemplate/downloadExample)
    pc,        \* "start", "requested", "failed", "done"
    parsed,    \* result of parseGitHubSpec(spec)
    request,   \* path given to codeloadClient.get, or Undefined
    strip,     \* the strip option given to Tar.extract
    filterSub, \* the subdirectory the Tar.extract filter closes over
    error,     \* message of the failure, or Undefined
    errorKind, \* "none", or the kind of error the operation failed with
    requests,  \* number of archive requests issued so far
    remote,    \* what the codeload host answers: [status, entries]
    localDir,  \* names found in the local catalog directory
    todo,      \* archive entries of the response stream not yet consumed
    fault,     \* "none", or where the stream faulted: "sink" or "source"
    written,   \* what was written under the destination: [entry, path]
    config,      \* createTemplate: config.projectType
    cpc,         \* createTemplate: the statement reached
    sourcesRead, \* createTemplate: the template sources read so far
    template,    \* what the template source holds: [tree, manifest]
    tree,        \* names present under the project directory
    manifest,    \* packageJson, the parsed package.json being edited
    manifestOut, \* the package.json written back
    cerror,      \* "none", or the statement createTemplate failed at
    checkYml,    \* the parsed .github/workflows/check.yml: [hasJobs, jobs]
    checkIO,     \* which of "read" and "write" was done to check.yml
    packageWrites, \* number of writes of package.json by createTemplate
    epc,         \* configureExpoApp: the prompt or statement reached
    hasAppJson,  \* result of fs.exists(app.json)
    expoIn,      \* the fields of appJson["expo"] as read
    chosen,      \* the values returned by the prompts so far
    attempts,    \* answers rejected by the askValidated now running
    appJsonOut,  \* the fields of expo written to app.json
    pkgNameOut,  \* the name written to package.json by configureExpoApp
    slugRun,     \* sanitizeSlug applied to an input: [pc, input, once, twice]
    gpc,         \* finalizeGitignoreFiles: "visiting" or "done"
    gitIn,       \* the gitignore files of each directory before the pass
    gitFs,       \* the gitignore files of each directory now
    gitStack,    \* the directories still to visit, next first
    gitFaulted,  \* whether a file-system call of the pass has failed
    shpc,        \* the bin shim: the statement reached, or "exited"
    shimEnv,     \* what each command does on this machine
    started,     \* the runners started with the TypeScript entry, in order
    cliRuns,     \* how many times the CLI itself has run
    exitCode,    \* the value of `code`, then the exit code of the process
    message      \* whether the "could not execute" message was printed

downloadVars ==
    <<op, input, spec, hasLocal, pc, parsed, request, strip, filterSub, error,
      errorKind, requests, remote, localDir, todo, fault, written>>

createVars ==
    <<config, cpc, sourcesRead, template, tree, manifest, manifestOut, cerror,
      checkYml, checkIO, packageWrites>>

expoVars == <<epc, hasAppJson, expoIn, chosen, attempts, appJsonOut, pkgNameOut>>

slugVars == <<slugRun>>

gitVars == <<gpc, gitIn, gitFs, gitStack, gitFaulted>>

shimVars == <<shpc, shimEnv, started, cliRuns, exitCode, message>>

toolVars == <<expoVars, slugVars, gitVars, shimVars>>

notExpo == <<downloadVars, createVars, slugVars, gitVars, shimVars>>

notGit == <<downloadVars, createVars, expoVars, slugVars, shimVars>>

notSlug == <<downloadVars, createVars, expoVars, gitVars, shimVars>>

notShim == <<downloadVars, createVars, expoVars, slugVars, gitVars>>

vars == <<downloadVars, createVars, toolVars>>

(***************************************************************************)
(* Bounds of the input space.                                              *)
(***************************************************************************)
MaxUrlSegs == 5
MaxShortSegs == 4
MaxHeadSegs == 2
MaxEntries == 2

(***************************************************************************)
(* JavaScript values.                                                      *)
(***************************************************************************)
\* `undefined` where a string is expected: no string is equal to it, since a
\* string's elements are single characters.
Undefined == <<"undefined">>

\* if (x), x ? a : b, x || y on a string-or-undefined value
Truthy(x) == x # Undefined /\ x # <<>>

\* x || undefined
OrUndefined(x) == IF Truthy(x) THEN x ELSE Undefined

Whitespace == {" "}

Max(S) == CHOOSE m \in S : \A n \in S : n <= m
Min(S) == CHOOSE m \in S : \A n \in S : m <= n

\* s.startsWith(p)
StartsWith(s, p) == Len(s) >= Len(p) /\ SubSeq(s, 1, Len(p)) = p

\* s.endsWith(p)
EndsWith(s, p) == Len(s) >= Len(p) /\ SubSeq(s, Len(s) - Len(p) + 1, Len(s)) = p

\* s.slice(from), with a 0-based index as in JavaScript
SliceFrom(s, from) == SubSeq(s, from + 1, Len(s))

\* s.slice(0, to)
SliceTo(s, to) == SubSeq(s, 1, to)

\* s.trim()
Trim(s) ==
    LET keep == {i \in 1..Len(s) : s[i] \notin Whitespace}
    IN  IF keep = {} THEN <<>> ELSE SubSeq(s, Min(keep), Max(keep))

\* s.lastIndexOf(c): 0-based, -1 when c does not occur
LastIndexOf(s, c) ==
    LET at == {i \in 1..Len(s) : s[i] = c}
    IN  IF at = {} THEN -1 ELSE Max(at) - 1

\* s.indexOf(c): 0-based, -1 when c does not occur
IndexOf(s, c) ==
    LET at == {i \in 1..Len(s) : s[i] = c}
    IN  IF at = {} THEN -1 ELSE Min(at) - 1

\* s.split(c): every piece between separators, the empty ones included
RECURSIVE Split(_, _)
Split(s, c) ==
    LET i == IndexOf(s, c)
    IN  IF i < 0 THEN <<s>>
        ELSE <<SliceTo(s, i)>> \o Split(SliceFrom(s, i + 1), c)

\* a filter that keeps the empty pieces
FilterNothing(parts) == parts

\* parts.filter(Boolean)
FilterBoolean(parts) == SelectSeq(parts, LAMBDA p : p # <<>>)

\* parts.join(sep)
RECURSIVE Join(_, _)
Join(parts, sep) ==
    IF parts = <<>> THEN <<>>
    ELSE IF Len(parts) = 1 THEN parts[1]
    ELSE parts[1] \o sep \o Join(Tail(parts), sep)

\* parts.slice(from) on an array
ArraySliceFrom(parts, from) == SubSeq(parts, from + 1, Len(parts))

(***************************************************************************)
(* String literals of the source.                                          *)
(***************************************************************************)
Slash == <<"/">>
GhPrefix == <<"g", "h", ":">>
GithubPrefix == <<"g", "i", "t", "h", "u", "b", ":">>
HttpScheme == <<"h", "t", "t", "p", ":", "/", "/">>
HttpsScheme == <<"h", "t", "t", "p", "s", ":", "/", "/">>
GithubCom == <<"g", "i", "t", "h", "u", "b", ".", "c", "o", "m">>
TreeWord == <<"t", "r", "e", "e">>
MainBranch == <<"m", "a", "i", "n">>
TarGz == <<"/", "t", "a", "r", ".", "g", "z", "/">>
CatalogArchivePath ==
    <<"/", "E", "f", "f", "e", "c", "t", "-", "T", "S", "/",
      "e", "x", "a", "m", "p", "l", "e", "s">> \o TarGz \o MainBranch
InvalidSpecMessage ==
    <<"I", "n", "v", "a", "l", "i", "d", " ", "G", "i", "t", "H", "u", "b", " ",
      "r", "e", "p", "o", " ", "s", "p", "e", "c", ":", " ">>
FailedRepoMessage ==
    <<"F", "a", "i", "l", "e", "d", " ", "t", "o", " ", "d", "o", "w", "n",
      "l", "o", "a", "d", " ", "t", "e", "m", "p", "l", "a", "t", "e", " ",
      "f", "r", "o", "m", " ">>
FailedTemplateMessage ==
    <<"F", "a", "i", "l", "e", "d", " ", "t", "o", " ", "d", "o", "w", "n",
      "l", "o", "a", "d", " ", "t", "e", "m", "p", "l", "a", "t", "e", " ">>
FailedExampleMessage ==
    <<"F", "a", "i", "l", "e", "d", " ", "t", "o", " ", "d", "o", "w", "n",
      "l", "o", "a", "d", " ", "e", "x", "a", "m", "p", "l", "e", " ">>
StatusCodeMessage ==
    <<"n", "o", "n", " ", "2", "x", "x", " ", "s", "t", "a", "t", "u", "s",
      " ", "c", "o", "d", "e">>
DecodeMessage ==
    <<"D", "e", "c", "o", "d", "e">>
ExamplesMain ==
    <<"e", "x", "a", "m", "p", "l", "e", "s", "-", "m", "a", "i", "n", "/">>
TemplatesWord ==
    <<"t", "e", "m", "p", "l", "a", "t", "e", "s">>
ExamplesWord ==
    <<"e", "x", "a", "m", "p", "l", "e", "s">>

(***************************************************************************)
(* new URL(s), for the strings the parser hands it: they start with        *)
(* "http://" or "https://".  The WHATWG parser, for such a special scheme: *)
(* skips every slash that follows the scheme, reads the authority up to    *)
(* the next "/", drops the userinfo that ends at the last "@", separates   *)
(* the port at ":", fails on an empty host or a non-numeric port,          *)
(* lower-cases the host, and removes "." and ".." segments from the path.  *)
(* The path characters of the modelled inputs (letters, ".", "@") are not  *)
(* in the path percent-encode set, so they are kept as they are.           *)
(***************************************************************************)
Digits == {"0", "1", "2", "3", "4", "5", "6", "7", "8", "9"}

UpperLetters ==
    <<"A", "B", "C", "D", "E", "F", "G", "H", "I", "J", "K", "L", "M", "N",
      "O", "P", "Q", "R", "S", "T", "U", "V", "W", "X", "Y", "Z">>

LowerLetters ==
    <<"a", "b", "c", "d", "e", "f", "g", "h", "i", "j", "k", "l", "m", "n",
      "o", "p", "q", "r", "s", "t", "u", "v", "w", "x", "y", "z">>

LowerChar(c) ==
    IF \E i \in 1..Len(UpperLetters) : UpperLetters[i] = c
    THEN LowerLetters[CHOOSE i \in 1..Len(UpperLetters) : UpperLetters[i] = c]
    ELSE c

\* ASCII lower-casing of the host (domain to ASCII); also the regex flag i
ToLowerCase(s) == [i \in 1..Len(s) |-> LowerChar(s[i])]

\* special authority (ignore) slashes state
RECURSIVE SkipSlashes(_)
SkipSlashes(s) ==
    IF s # <<>> /\ Head(s) = "/" THEN SkipSlashes(Tail(s)) ELSE s

\* path state: the list of path segments, dot segments resolved
RECURSIVE PathState(_, _)
PathState(segs, path) ==
    IF segs = <<>> THEN path
    ELSE LET seg == Head(segs)
             last == Len(segs) = 1
         IN  IF seg = <<".", ".">>
             THEN LET shortened == IF path = <<>> THEN path
                                   ELSE SubSeq(path, 1, Len(path) - 1)
                  IN  PathState(Tail(segs),
                                IF last THEN Append(shortened, <<>>) ELSE shortened)
             ELSE IF seg = <<".">>
             THEN PathState(Tail(segs), IF last THEN Append(path, <<>>) ELSE path)
             ELSE PathState(Tail(segs), Append(path, seg))

\* new URL(s): [ok, hostname, pathname]; ok = FALSE when the constructor throws
UrlParse(s) ==
    LET afterScheme == IF StartsWith(s, HttpsScheme) THEN SliceFrom(s, 6)
                       ELSE SliceFrom(s, 5)
        rest == SkipSlashes(afterScheme)
        end == IndexOf(rest, "/")
        authority == IF end < 0 THEN rest ELSE SliceTo(rest, end)
        pathPart == IF end < 0 THEN <<>> ELSE SliceFrom(rest, end + 1)
        at == LastIndexOf(authority, "@")
        hostport == IF at < 0 THEN authority ELSE SliceFrom(authority, at + 1)
        colon == IndexOf(hostport, ":")
        host == IF colon < 0 THEN hostport ELSE SliceTo(hostport, colon)
        port == IF colon < 0 THEN <<>> ELSE SliceFrom(hostport, colon + 1)
        valid == /\ host # <<>>
                 /\ \A i \in 1..Len(port) : port[i] \in Digits
    IN  IF valid
        THEN [ok |-> TRUE,
              hostname |-> ToLowerCase(host),
              pathname |-> Slash \o Join(PathState(Split(pathPart, "/"), <<>>), Slash)]
        ELSE [ok |-> FALSE, hostname |-> <<>>, pathname |-> <<>>]

(***************************************************************************)
(* parseGitHubSpec                                                         *)
(***************************************************************************)
\* the value `undefined` returned by parseGitHubSpec
NoReference ==
    [defined |-> FALSE, owner |-> Undefined, repo |-> Undefined,
     ref |-> Undefined, subdir |-> Undefined]

Reference(owner, repo, ref, subdir) ==
    [defined |-> TRUE, owner |-> owner, repo |-> repo, ref |-> ref, subdir |-> subdir]

\* the prefix removal with the github: case forgotten
StripPrefixesGhOnly(str) ==
    LET s0 == Trim(str)
    IN  IF StartsWith(s0, GhPrefix) THEN SliceFrom(s0, 3) ELSE s0

\* let s = spec.trim(); the two prefix removals
StripPrefixes(str) ==
    LET s0 == Trim(str)
        s1 == IF StartsWith(s0, GhPrefix) THEN SliceFrom(s0, 3) ELSE s0
    IN  IF StartsWith(s1, GithubPrefix) THEN SliceFrom(s1, 7) ELSE s1

\* s.startsWith("http://") || s.startsWith("https://")
IsUrlForm(s) == StartsWith(s, HttpScheme) \/ StartsWith(s, HttpsScheme)

\* /github\.com$/i.test(url.hostname)
HostMatches(hostname) == EndsWith(ToLowerCase(hostname), GithubCom)

\* the URL branch with the ref left in the subdirectory of a tree URL
ReferenceFromUrlPartsRefInSubdir(parts) ==
    IF Len(parts) < 2 THEN NoReference
    ELSE IF Len(parts) >= 3 /\ parts[3] = TreeWord /\ Len(parts) >= 4
         THEN Reference(parts[1], parts[2], parts[4],
                        OrUndefined(Join(ArraySliceFrom(parts, 3), Slash)))
         ELSE Reference(parts[1], parts[2], Undefined,
                        OrUndefined(Join(ArraySliceFrom(parts, 2), Slash)))

\* the body of the URL branch after `parts` is computed
ReferenceFromUrlParts(parts) ==
    IF Len(parts) < 2 THEN NoReference
    ELSE IF Len(parts) >= 3 /\ parts[3] = TreeWord /\ Len(parts) >= 4
         THEN Reference(parts[1], parts[2], parts[4],
                        OrUndefined(Join(ArraySliceFrom(parts, 4), Slash)))
         ELSE Reference(parts[1], parts[2], Undefined,
                        OrUndefined(Join(ArraySliceFrom(parts, 2), Slash)))

\* the URL branch, try/catch included
ParseUrlForm(s) ==
    LET url == UrlParse(s)
    IN  IF ~url.ok THEN NoReference
        ELSE IF ~HostMatches(url.hostname) THEN NoReference
        ELSE ReferenceFromUrlParts(FilterBoolean(Split(url.pathname, "/")))

\* the ref test with at >= 0 for at > 0
HasRefSuffixAtZero(s) == LastIndexOf(s, "@") >= 0

\* const at = s.lastIndexOf("@"); if (at > 0) ...
HasRefSuffix(s) == LastIndexOf(s, "@") > 0

\* the shorthand branch with the subdirectory sliced one segment early
ParseShorthandSliceOff(s) ==
    LET at == LastIndexOf(s, "@")
        ref == IF at > 0 THEN SliceFrom(s, at + 1) ELSE Undefined
        body == IF at > 0 THEN SliceTo(s, at) ELSE s
        segs == FilterBoolean(Split(body, "/"))
    IN  IF Len(segs) < 2 THEN NoReference
        ELSE Reference(segs[1], segs[2], ref,
                       OrUndefined(Join(ArraySliceFrom(segs, 1), Slash)))

\* the shorthand branch with segs.length < 1 for segs.length < 2
ParseShorthandOneSegment(s) ==
    LET at == LastIndexOf(s, "@")
        ref == IF at > 0 THEN SliceFrom(s, at + 1) ELSE Undefined
        body == IF at > 0 THEN SliceTo(s, at) ELSE s
        segs == FilterBoolean(Split(body, "/"))
    IN  IF Len(segs) < 1 THEN NoReference
        ELSE Reference(segs[1], IF Len(segs) >= 2 THEN segs[2] ELSE Undefined, ref,
                       OrUndefined(Join(ArraySliceFrom(segs, 2), Slash)))

\* the shorthand branch
ParseShorthand(s) ==
    LET at == LastIndexOf(s, "@")
        ref == IF HasRefSuffix(s) THEN SliceFrom(s, at + 1) ELSE Undefined
        body == IF HasRefSuffix(s) THEN SliceTo(s, at) ELSE s
        segs == FilterBoolean(Split(body, "/"))
    IN  IF Len(segs) < 2 THEN NoReference
        ELSE Reference(segs[1], segs[2], ref,
                       OrUndefined(Join(ArraySliceFrom(segs, 2), Slash)))

parseGitHubSpec(str) ==
    LET s == StripPrefixes(str)
    IN  IF IsUrlForm(s) THEN ParseUrlForm(s) ELSE ParseShorthand(s)

(***************************************************************************)
(* downloadFromRepo, downloadTemplate, downloadExample                     *)
(***************************************************************************)
\* the default branch taken to be master
CommitishMaster(ref) ==
    IF ref = Undefined THEN <<"m", "a", "s", "t", "e", "r">> ELSE ref

\* const commitish = ref ?? "main"
Commitish(ref) == IF ref = Undefined THEN MainBranch ELSE ref

\* `/${owner}/${repo}/tar.gz/${commitish}`
RequestPath(p) == Slash \o p.owner \o Slash \o p.repo \o TarGz \o Commitish(p.ref)

\* the strip count without the wrapper segment
StripCountNoWrapper(subdir) ==
    IF Truthy(subdir) THEN Len(FilterBoolean(Split(subdir, "/"))) ELSE 0

\* the strip count taking the subdirectory for a single segment
StripCountOneSegment(subdir) == 1 + (IF Truthy(subdir) THEN 1 ELSE 0)

\* strip: 1 + (subdir ? subdir.split("/").filter(Boolean).length : 0)
StripCount(subdir) ==
    1 + (IF Truthy(subdir) THEN Len(FilterBoolean(Split(subdir, "/"))) ELSE 0)

\* strip: 2 + config.projectType.template.split("/").length (and .example)
CatalogStrip(name) == 2 + Len(Split(name, "/"))

\* s.includes(sub)
Includes(s, sub) ==
    \E i \in 0..(Len(s) - Len(sub)) : SubSeq(s, i + 1, i + Len(sub)) = sub

\* the filter of downloadFromRepo with a plain string-prefix test
RepoFilterPrefixOnly(p, subdir) ==
    LET inner == Join(ArraySliceFrom(Split(p, "/"), 1), Slash)
    IN  IF ~Truthy(subdir) THEN TRUE
        ELSE inner = subdir \/ StartsWith(inner, subdir)

\* filter: (p) => { ... } of downloadFromRepo
RepoFilter(p, subdir) ==
    LET parts == Split(p, "/")
        inner == Join(ArraySliceFrom(parts, 1), Slash)
    IN  IF ~Truthy(subdir) THEN TRUE
        ELSE inner = subdir \/ StartsWith(inner, subdir \o Slash)

\* filter: (p) => p.includes(`examples-main/templates/${name}`) (resp. examples)
CatalogFilter(p, dirWord, name) ==
    Includes(p, ExamplesMain \o dirWord \o Slash \o name)

\* the catalog directory of an entry point
CatalogDir(kind) == IF kind = "template" THEN TemplatesWord ELSE ExamplesWord

\* `Failed to download template from ${owner}/${repo}@${commitish}${subdir ? "/" + subdir : ""}`
FailedRepoText(p) ==
    FailedRepoMessage \o p.owner \o Slash \o p.repo \o <<"@">> \o Commitish(p.ref)
        \o (IF Truthy(p.subdir) THEN Slash \o p.subdir ELSE <<>>)

\* `Failed to download template ${name}` (resp. example)
FailedCatalogText(kind, name) ==
    (IF kind = "template" THEN FailedTemplateMessage ELSE FailedExampleMessage) \o name

\* HttpClient.filterStatusOk
StatusOk(status) == status >= 200 /\ status < 300

(***************************************************************************)
(* Tar.extract({ cwd, strip, filter }): the filter sees the path of the    *)
(* entry as it is in the archive; an entry that passes loses its first     *)
(* `strip` segments, and is skipped when it has fewer segments than that,  *)
(* when a ".." segment remains, or when nothing remains of its path (it    *)
(* is then the destination directory itself).                              *)
(***************************************************************************)
TarStrippedPath(p, n) ==
    LET parts == Split(p, "/")
        rest == SubSeq(parts, n + 1, Len(parts))
    IN  IF Len(parts) < n THEN Undefined
        ELSE IF \E i \in 1..Len(rest) : rest[i] = <<".", ".">> THEN Undefined
        ELSE OrUndefined(Join(rest, Slash))

\* the destination after a failure, were the operation to clean up
WrittenAfterFailureRolledBack(w) == {}

\* the destination after a failure: the pipeline has no finalizer, so the
\* files written so far stay
WrittenAfterFailure(w) == w

\* the end of a stream that failed when nothing was extracted
ExtractionEndNonEmpty(w) == IF w = {} THEN "failed" ELSE "done"

\* the end of the stream: Stream.run succeeds whatever was extracted
ExtractionEnd(w) == "done"

\* a catalog lookup that never uses the local checkout
PreferLocalNever(exists) == FALSE

\* if (hasLocal) { copy; return }
PreferLocal(exists) == exists

(***************************************************************************)
(* The inputs.  A spec string is put together from its components:         *)
(*   lead  scheme host "/"  at0 seg "/" ... "/" seg  suffix                *)
(* (scheme, host and the "/" after it only in URL form), so that a claim   *)
(* about "every input of the form ..." is a claim about the components.    *)
(***************************************************************************)
SeqsUpTo(S, n) == UNION {[1..k -> S] : k \in 0..n}

SegSet == {<<>>, <<"o">>, TreeWord, <<".", ".">>}

RefSuffixes == {<<>>, <<"@", "v">>, <<"@">>}

Leads == {<<>>, <<" ">>, GhPrefix, GithubPrefix}

Hosts ==
    { GithubCom,
      <<"G", "i", "t", "H", "u", "b", ".", "c", "o", "m">>,
      <<"g", "i", "t", "l", "a", "b", ".", "c", "o", "m">>,
      <<"n", "o", "t">> \o GithubCom,
      <<>>,
      GithubCom \o <<":", "x">>,
      GithubCom \o <<":", "8", "0">>,
      GithubCom \o <<"@", "g", "i", "t", "l", "a", "b", ".", "c", "o", "m">> }

Components(lead, scheme, host, at0, segs, suffix) ==
    [lead |-> lead, scheme |-> scheme, host |-> host, at0 |-> at0,
     segs |-> segs, suffix |-> suffix]

\* the grammar of both forms, with long paths
GrammarInputs ==
    { Components(<<>>, <<>>, <<>>, at0, segs, suffix) :
        at0 \in {<<>>, <<"@">>}, segs \in SeqsUpTo(SegSet, MaxShortSegs),
        suffix \in RefSuffixes }
    \cup
    { Components(<<>>, HttpsScheme, GithubCom, <<>>, segs, suffix) :
        segs \in SeqsUpTo(SegSet, MaxUrlSegs), suffix \in {<<>>, <<"@", "v">>} }

\* leading whitespace, prefixes, schemes and hosts, with short paths
HeadInputs ==
    { Components(lead, <<>>, <<>>, <<>>, segs, suffix) :
        lead \in Leads, segs \in SeqsUpTo(SegSet, MaxHeadSegs),
        suffix \in {<<>>, <<"@", "v">>} }
    \cup
    { Components(lead, HttpsScheme, host, <<>>, segs, suffix) :
        lead \in Leads, host \in Hosts, segs \in SeqsUpTo(SegSet, MaxHeadSegs),
        suffix \in {<<>>, <<"@", "v">>} }
    \cup
    { Components(lead, HttpScheme, GithubCom, <<>>, segs, suffix) :
        lead \in Leads, segs \in SeqsUpTo(SegSet, MaxHeadSegs),
        suffix \in {<<>>, <<"@", "v">>} }

RepoInputs == GrammarInputs \cup HeadInputs

BuildSpec(c) ==
    c.lead \o c.scheme \o c.host \o (IF c.scheme # <<>> THEN Slash ELSE <<>>)
        \o c.at0 \o Join(c.segs, Slash) \o c.suffix

\* names of the built-in catalog (templates: the fallback list)
MaxNameSegs == 2

CatalogWords ==
    { <<"b", "a", "s", "i", "c">>, <<"c", "l", "i">>,
      <<"m", "o", "n", "o", "r", "e", "p", "o">> }

CatalogInputs ==
    { Components(<<>>, <<>>, <<>>, <<>>, segs, <<>>) :
        segs \in SeqsUpTo(CatalogWords, MaxNameSegs) \ {<<>>} }

(***************************************************************************)
(* createTemplate(config): the template is materialized from one source,   *)
(* package.json is read, the tools the user opted out of are removed from  *)
(* the project directory and from the manifest, and package.json is        *)
(* written back.  A section of the manifest is a function from its keys    *)
(* to their values.                                                        *)
(***************************************************************************)
MaxMissing == 2

ChangesetWord == <<"c", "h", "a", "n", "g", "e", "s", "e", "t">>
EslintWord == <<"e", "s", "l", "i", "n", "t">>
LintWord == <<"l", "i", "n", "t">>

\* the files and directories of a template that createTemplate touches
FileNames ==
    { ".changeset", "patches", ".envrc", "flake.nix", "eslint.config.mjs",
      ".github", "release.yml", "check.yml", "package.json" }

\* the sections of package.json that createTemplate edits
SectionNames == {"scripts", "devDependencies", "pnpm"}

PackageJson(sections, name, scripts, devDependencies, patchedDependencies) ==
    [sections |-> sections, name |-> name, scripts |-> scripts,
     devDependencies |-> devDependencies,
     patchedDependencies |-> patchedDependencies]

\* a section with the given keys; the value of a key is its version range
SectionOf(keys) == [k \in keys |-> <<"^">> \o k]

NoPackageJson == PackageJson({}, <<>>, SectionOf({}), SectionOf({}), SectionOf({}))

\* Array.filter(Object.keys(section), (key) => key === word), then delete
WithoutKeysNamed(section, word) ==
    [k \in {x \in DOMAIN section : x # word} |-> section[k]]

\* Array.filter(Object.keys(section), (key) => key.includes(word)), then
\* delete section[key] for each
WithoutKeys(section, word) ==
    [k \in {x \in DOMAIN section : ~Includes(x, word)} |-> section[k]]

\* the source createTemplate materializes from
SourceOf(projectType) ==
    IF Truthy(projectType.templateRepo) THEN "repo"
    ELSE IF Truthy(projectType.templateFolder) THEN "folder"
    ELSE "catalog"

ScriptKeys == { <<"l", "i", "n", "t">>,
      <<"l", "i", "n", "t", "-", "f", "i", "x">>,
      <<"c", "h", "a", "n", "g", "e", "s", "e", "t", "-", "v", "e", "r", "s", "i", "o", "n">>,
      <<"b", "u", "i", "l", "d">> }

DevDependencyKeys == { <<"e", "s", "l", "i", "n", "t">>,
      <<"@", "c", "h", "a", "n", "g", "e", "s", "e", "t", "s", "/", "c", "l", "i">>,
      <<"l", "i", "n", "t", "-", "s", "t", "a", "g", "e", "d">>,
      <<"t", "s", "x">> }

PatchedKeys == { <<"@", "c", "h", "a", "n", "g", "e", "s", "e", "t", "s", "/", "x">>,
      <<"y">> }

ToolFree(keys) ==
    { k \in keys : ~Includes(k, ChangesetWord) /\ ~Includes(k, LintWord) }

Manifests ==
    { PackageJson(SectionNames, <<"a", "p", "p">>, SectionOf(ScriptKeys),
                  SectionOf(DevDependencyKeys), SectionOf(PatchedKeys)),
      PackageJson(SectionNames, <<"a", "p", "p">>, SectionOf(ToolFree(ScriptKeys)),
                  SectionOf(ToolFree(DevDependencyKeys)),
                  SectionOf(ToolFree(PatchedKeys))),
      PackageJson({"scripts", "devDependencies"}, <<"a", "p", "p">>,
                  SectionOf(ScriptKeys), SectionOf(DevDependencyKeys),
                  SectionOf({})),
      PackageJson({"devDependencies", "pnpm"}, <<"a", "p", "p">>, SectionOf({}),
                  SectionOf(DevDependencyKeys), SectionOf(PatchedKeys)) }

\* the trees of a template: at most MaxMissing of the names are missing, and
\* the workflow files exist only inside .github
Trees ==
    { FileNames \ (m \cup (IF ".github" \in m THEN {"release.yml", "check.yml"}
                           ELSE {})) :
        m \in { x \in SUBSET FileNames : Cardinality(x) <= MaxMissing } }

ProjectTypeTemplate(templateRepo, templateFolder, flags) ==
    [template |-> <<"b", "a", "s", "i", "c">>,
     templateRepo |-> templateRepo, templateFolder |-> templateFolder,
     withChangesets |-> flags[1], withNixFlake |-> flags[2],
     withESLint |-> flags[3], withWorkflows |-> flags[4]]

TemplateTexts == {Undefined, <<>>, <<"o", "/", "o">>}

Flags == [1..4 -> BOOLEAN]

AllTools == [i \in 1..4 |-> TRUE]

\* Yaml.parse(checkWorkflow): the jobs of the workflow, if it has any
CheckYaml(hasJobs, jobs) == [hasJobs |-> hasJobs, jobs |-> jobs]

NoCheckYaml == CheckYaml(FALSE, {})

\* a workflow rewritten with all its jobs
WithoutJobNone(jobs, name) == jobs

\* delete checkYaml["jobs"][name]
WithoutJob(jobs, name) == jobs \ {name}

\* a failure that flushes the manifest being edited
PackageJsonFlushedOnFailure(writtenBack, packageJson) == packageJson

\* package.json as written back when createTemplate fails: the manifest being
\* edited lives in memory only
PackageJsonAfterFailure(writtenBack, packageJson) == writtenBack

\* the check.yml of a template
CheckYamls ==
    { CheckYaml(TRUE, {"build", "lint", "types"}), CheckYaml(TRUE, {"build"}),
      NoCheckYaml }

\* createTemplate has not been called
CreateIdle ==
    /\ config = ProjectTypeTemplate(Undefined, Undefined, AllTools)
    /\ cpc = "idle"
    /\ sourcesRead = {}
    /\ template = [tree |-> {}, manifest |-> NoPackageJson, check |-> NoCheckYaml]
    /\ checkYml = NoCheckYaml
    /\ checkIO = {}
    /\ packageWrites = 0
    /\ tree = {}
    /\ manifest = NoPackageJson
    /\ manifestOut = NoPackageJson
    /\ cerror = "none"

(***************************************************************************)
(* configureExpoApp(projectDir) and its helpers.  A regular expression is  *)
(* modelled by the set of strings it matches.                              *)
(***************************************************************************)
Lower == {LowerLetters[i] : i \in 1..Len(LowerLetters)}

Upper == {UpperLetters[i] : i \in 1..Len(UpperLetters)}

\* every character of s from position `from` on is in `class`
AllIn(s, from, class) == \A i \in from..Len(s) : s[i] \in class

\* .replace(/[^\da-z-]+/g, "-")
RECURSIVE DashRuns(_)
DashRuns(s) ==
    IF s = <<>> THEN <<>>
    ELSE IF Head(s) \in Digits \cup Lower \cup {"-"}
    THEN <<Head(s)>> \o DashRuns(Tail(s))
    ELSE LET ok == {i \in 1..Len(s) : s[i] \in Digits \cup Lower \cup {"-"}}
         IN  IF ok = {} THEN <<"-">>
             ELSE <<"-">> \o DashRuns(SubSeq(s, Min(ok), Len(s)))

\* the length of the run of "-" at the start of s
LeadingDashes(s) ==
    LET other == {i \in 1..Len(s) : s[i] # "-"}
    IN  IF other = {} THEN Len(s) ELSE Min(other) - 1

\* the length of the run of "-" at the end of s
TrailingDashes(s) ==
    LET other == {i \in 1..Len(s) : s[i] # "-"}
    IN  IF other = {} THEN Len(s) ELSE Len(s) - Max(other)

\* .replace(/^-+|-+$/g, "-"): the run at the start and the run at the end
\* each become one "-"
EdgeDashes(s) ==
    LET lead == LeadingDashes(s)
        trail == IF lead = Len(s) THEN 0 ELSE TrailingDashes(s)
    IN  (IF lead > 0 THEN <<"-">> ELSE <<>>)
            \o SubSeq(s, lead + 1, Len(s) - trail)
            \o (IF trail > 0 THEN <<"-">> ELSE <<>>)

\* .replace(/^-+/, "")
DropLeadingDashes(s) == SubSeq(s, LeadingDashes(s) + 1, Len(s))

\* a sanitizer without the last replacement
sanitizeSlugKeepsLeading(s) == EdgeDashes(DashRuns(ToLowerCase(Trim(s))))

\* String(s).trim().toLowerCase().replace(/[^\da-z-]+/g, "-")
\*     .replace(/^-+|-+$/g, "-").replace(/^-+/, "")
sanitizeSlug(s) == DropLeadingDashes(EdgeDashes(DashRuns(ToLowerCase(Trim(s)))))

\* /^[\da-z][\da-z-]*$/
isValidSlug(s) ==
    /\ s # <<>>
    /\ s[1] \in Digits \cup Lower
    /\ AllIn(s, 2, Digits \cup Lower \cup {"-"})

\* /^[a-z][\d+.a-z-]*$/
isValidScheme(s) ==
    /\ s # <<>>
    /\ s[1] \in Lower
    /\ AllIn(s, 2, Digits \cup Lower \cup {"+", ".", "-"})

\* (first)(rest)*(\.(first)(rest)*)+ : two or more segments between dots
DottedIdentifier(s, first, rest) ==
    LET segs == Split(s, ".")
    IN  /\ Len(segs) >= 2
        /\ \A i \in 1..Len(segs) :
               /\ segs[i] # <<>>
               /\ segs[i][1] \in first
               /\ AllIn(segs[i], 2, rest)

\* /^[A-Za-z][\dA-Za-z]*(\.[A-Za-z][\dA-Za-z]*)+$/
isValidBundleId(s) ==
    DottedIdentifier(s, Lower \cup Upper, Digits \cup Lower \cup Upper)

\* /^[a-z][\da-z]*(\.[a-z][\da-z]*)+$/
isValidAndroidPackage(s) == DottedIdentifier(s, Lower, Digits \cup Lower)

\* bundleId.split(".").map((seg) => seg.toLowerCase()).join(".")
toAndroidPackage(bundleId) ==
    LET segs == Split(bundleId, ".")
    IN  Join([i \in 1..Len(segs) |-> ToLowerCase(segs[i])], <<".">>)

\* a || b
OrElse(a, b) == IF Truthy(a) THEN a ELSE b

\* a ?? b
Coalesce(a, b) == IF a # Undefined THEN a ELSE b

\* Prompt.text({ message, default }): the line typed, or the default when
\* the line is empty
PromptText(typed, default) == IF typed = <<>> THEN default ELSE typed

\* the fields of appJson["expo"] that configureExpoApp reads and writes
ExpoFields(name, slug, scheme, bundleIdentifier, package) ==
    [name |-> name, slug |-> slug, scheme |-> scheme,
     bundleIdentifier |-> bundleIdentifier, package |-> package]

NoExpoFields == ExpoFields(Undefined, Undefined, Undefined, Undefined, Undefined)

MyApp == <<"M", "y", " ", "A", "p", "p">>

ComExampleApp == <<"c", "o", "m", ".", "e", "x", "a", "m", "p", "l", "e", ".", "a", "p", "p">>

currentName == Coalesce(expoIn.name, MyApp)

currentSlug == Coalesce(expoIn.slug, sanitizeSlug(currentName))

currentScheme == Coalesce(expoIn.scheme, currentSlug)

currentBundleId == Coalesce(expoIn.bundleIdentifier, ComExampleApp)

currentAndroidPackage == Coalesce(expoIn.package, toAndroidPackage(currentBundleId))

\* an askValidated that returns whatever was answered
ReturnsAlways(valid) == TRUE

\* if (options.validate(value)) return value
Returns(valid) == valid

\* configureExpoApp has not been called
ExpoIdle ==
    /\ epc = "idle"
    /\ hasAppJson = FALSE
    /\ expoIn = NoExpoFields
    /\ chosen = NoExpoFields
    /\ attempts = 0
    /\ appJsonOut = NoExpoFields
    /\ pkgNameOut = Undefined

\* sanitizeSlug has not been applied
SlugIdle == slugRun = [pc |-> "idle", input |-> <<>>, once |-> <<>>, twice |-> <<>>]

\* the directories of a project, and the subdirectories of each in the
\* order of fs.readDirectory
Dirs == {".", "a", "a/b", "c"}

Subdirectories(dir) ==
    CASE dir = "." -> <<"a", "c">>
      [] dir = "a" -> <<"a/b">>
      [] OTHER -> <<>>

\* the gitignore files of one directory: whether `gitignore` is there, and
\* what `.gitignore` holds ("none": no such file, "own": its own content,
\* "gitignore": the content of the file renamed to it)
IgnoreFiles(gi, dot) == [gi |-> gi, dot |-> dot]

\* finalizeGitignoreFiles has not been called
GitIdle ==
    /\ gpc = "idle"
    /\ gitIn = [d \in Dirs |-> IgnoreFiles(FALSE, "none")]
    /\ gitFs = gitIn
    /\ gitStack = <<>>
    /\ gitFaulted = FALSE

\* what spawnSync of a runner with the TypeScript entry does: whether the
\* CLI gets to run, and the status tryRun returns
Outcome(cli, code) == [cli |-> cli, code |-> code]

\* the bin shim has not been started
ShimIdle ==
    /\ shpc = "idle"
    /\ shimEnv = [bun |-> FALSE, tsx |-> FALSE, local |-> 0,
                  pnpm |-> Outcome(FALSE, 1), npx |-> Outcome(FALSE, 1)]
    /\ started = <<>>
    /\ cliRuns = 0
    /\ exitCode = 0
    /\ message = FALSE

ToolsIdle == ExpoIdle /\ SlugIdle /\ GitIdle /\ ShimIdle

\* what the codeload host answers to the archive request
Response(status, entries) == [status |-> status, entries |-> entries]

NoArchive == Response(404, <<>>)

\* sequences of distinct entries of `universe`, at most MaxEntries long
Archives(universe) ==
    { a \in SeqsUpTo(universe, MaxEntries) :
        \A i, j \in 1..Len(a) : i # j => a[i] # a[j] }

\* entries of a repository archive, under the wrapper directory "w"
RepoEntries ==
    { <<"w", "/", "f">>,
      <<"w", "/", "o", "/">>,
      <<"w", "/", "o", "/", "f">>,
      <<"w", "/", "o", "x", "/", "f">>,
      <<"w", "/", "o", "/", "t", "r", "e", "e", "/", "f">> }

\* the specs whose archive is explored entry by entry
ExtractInputs ==
    { Components(<<>>, <<>>, <<>>, <<>>, segs, <<>>) :
        segs \in { <<<<"o">>, <<"o">>>>,
                   <<<<"o">>, <<"o">>, <<"o">>>>,
                   <<<<"o">>, <<"o">>, <<"o">>, TreeWord>>,
                   <<<<"o">>, <<"o">>, <<".", ".">>>> } }

\* entries of the catalog archive: a file of the directory `name` and one of
\* the sibling directory `name` + "x", in both catalog directories
CatalogEntriesOf(name) ==
    { ExamplesMain \o dirWord \o Slash \o name \o tail :
        dirWord \in {TemplatesWord, ExamplesWord},
        tail \in {<<"/", "f">>, <<"x", "/", "f">>} }

\* names found in the local directory of a catalog item
LocalDirs == { {}, {<<"f">>, <<"s", "r", "c">>} }

Init ==
    /\ op \in {"repo", "template", "example"}
    /\ input \in (IF op = "repo" THEN RepoInputs ELSE CatalogInputs)
    /\ spec = BuildSpec(input)
    /\ hasLocal \in (IF op = "repo" THEN {FALSE} ELSE BOOLEAN)
    /\ localDir \in (IF hasLocal THEN LocalDirs ELSE {{}})
    /\ remote \in
         {NoArchive} \cup
         (IF op = "repo" /\ input \in ExtractInputs
            THEN { Response(200, a) : a \in Archives(RepoEntries) }
          ELSE IF op # "repo" /\ ~hasLocal /\ Len(input.segs) = 1
            THEN { Response(200, a) : a \in Archives(CatalogEntriesOf(spec)) }
          ELSE {})
    /\ pc = "start"
    /\ parsed = NoReference
    /\ request = Undefined
    /\ strip = 0
    /\ filterSub = Undefined
    /\ error = Undefined
    /\ errorKind = "none"
    /\ requests = 0
    /\ todo = <<>>
    /\ fault = "none"
    /\ written = {}
    /\ CreateIdle
    /\ ToolsIdle

\* the message of a failure that names the spec after trimming it
InvalidSpecTextTrimmed(s) == InvalidSpecMessage \o Trim(s)

\* `Invalid GitHub repo spec: ${spec}`
InvalidSpecText(s) == InvalidSpecMessage \o s

\* what Tar.extract has put under the destination for the entry `e`
Extracted(e, path) == [entry |-> e, path |-> path]

\* downloadFromRepo(spec, destDir), up to the archive request
DownloadFromRepo ==
    /\ op = "repo"
    /\ pc = "start"
    /\ parsed' = parseGitHubSpec(spec)
    /\ IF ~parsed'.defined
       THEN /\ pc' = "failed"
            /\ error' = InvalidSpecText(spec)
            /\ errorKind' = "ValidationError"
            /\ UNCHANGED <<request, strip, filterSub, requests>>
       ELSE /\ pc' = "requested"
            /\ request' = RequestPath(parsed')
            /\ requests' = requests + 1
            /\ strip' = StripCount(parsed'.subdir)
            /\ filterSub' = parsed'.subdir
            /\ UNCHANGED <<error, errorKind>>
    /\ UNCHANGED <<op, input, spec, hasLocal, remote, localDir, todo, fault,
                   written>>
    /\ UNCHANGED <<createVars, toolVars>>

\* the body shared by downloadTemplate and downloadExample, up to the
\* archive request; copyDirectoryContents when the local directory exists
DownloadCatalog(kind) ==
    /\ op = kind
    /\ pc = "start"
    /\ IF PreferLocal(hasLocal)
       THEN /\ pc' = "done"
            /\ written' = { Extracted(name, name) : name \in localDir }
            /\ UNCHANGED <<request, strip, filterSub, requests>>
       ELSE /\ pc' = "requested"
            /\ request' = CatalogArchivePath
            /\ requests' = requests + 1
            /\ strip' = CatalogStrip(spec)
            /\ filterSub' = spec
            /\ UNCHANGED written
    /\ UNCHANGED <<op, input, spec, hasLocal, parsed, error, errorKind, remote,
                   localDir, todo, fault>>
    /\ UNCHANGED <<createVars, toolVars>>

DownloadTemplate == DownloadCatalog("template")

DownloadExample == DownloadCatalog("example")

\* the response reaches HttpClient.filterStatusOk: a status outside 2xx
\* fails the request, any other hands the body to the extraction
HttpResponse ==
    /\ pc = "requested"
    /\ IF StatusOk(remote.status)
       THEN /\ pc' = "extracting"
            /\ todo' = remote.entries
            /\ UNCHANGED <<error, errorKind>>
       ELSE /\ pc' = "failed"
            /\ error' = StatusCodeMessage
            /\ errorKind' = "ResponseError"
            /\ UNCHANGED todo
    /\ UNCHANGED <<op, input, spec, hasLocal, parsed, request, strip, filterSub,
                   requests, remote, localDir, fault, written>>
    /\ UNCHANGED <<createVars, toolVars>>

\* Tar.extract consumes the next entry of the stream
ExtractEntry ==
    /\ pc = "extracting"
    /\ todo # <<>>
    /\ LET e == Head(todo)
           passes == IF op = "repo" THEN RepoFilter(e, filterSub)
                     ELSE CatalogFilter(e, CatalogDir(op), filterSub)
           path == TarStrippedPath(e, strip)
       IN  written' = IF passes /\ path # Undefined
                      THEN written \cup {Extracted(e, path)}
                      ELSE written
    /\ todo' = Tail(todo)
    /\ UNCHANGED <<op, input, spec, hasLocal, pc, parsed, request, strip,
                   filterSub, error, errorKind, requests, remote, localDir,
                   fault>>
    /\ UNCHANGED <<createVars, toolVars>>

\* the stream fails while it is consumed: in the writable (the onError of
\* NodeSink.fromWritable makes it the descriptive ValidationError) or in the
\* response body (the error of HttpClientResponse.stream passes unchanged)
StreamFault ==
    /\ pc = "extracting"
    /\ \E where \in {"sink", "source"} :
         /\ fault' = where
         /\ IF where = "sink"
            THEN /\ errorKind' = "ValidationError"
                 /\ error' = IF op = "repo" THEN FailedRepoText(parsed)
                             ELSE FailedCatalogText(op, spec)
            ELSE /\ errorKind' = "ResponseError"
                 /\ error' = DecodeMessage
    /\ pc' = "failed"
    /\ written' = WrittenAfterFailure(written)
    /\ UNCHANGED <<op, input, spec, hasLocal, parsed, request, strip, filterSub,
                   requests, remote, localDir, todo>>
    /\ UNCHANGED <<createVars, toolVars>>

\* the stream ends: Stream.run returns
StreamEnd ==
    /\ pc = "extracting"
    /\ todo = <<>>
    /\ pc' = ExtractionEnd(written)
    /\ IF pc' = "failed"
       THEN /\ errorKind' = "ValidationError"
            /\ error' = IF op = "repo" THEN FailedRepoText(parsed)
                        ELSE FailedCatalogText(op, spec)
       ELSE UNCHANGED <<error, errorKind>>
    /\ UNCHANGED <<op, input, spec, hasLocal, parsed, request, strip, filterSub,
                   requests, remote, localDir, todo, fault, written>>
    /\ UNCHANGED <<createVars, toolVars>>

Next ==
    \/ DownloadFromRepo
    \/ DownloadTemplate
    \/ DownloadExample
    \/ HttpResponse
    \/ ExtractEntry
    \/ StreamFault
    \/ StreamEnd

Spec == Init /\ [][Next]_vars

\* no materialization is running on its own
DownloadIdle ==
    /\ op = "idle"
    /\ input = Components(<<>>, <<>>, <<>>, <<>>, <<>>, <<>>)
    /\ spec = <<>>
    /\ hasLocal = FALSE
    /\ localDir = {}
    /\ remote = NoArchive
    /\ pc = "idle"
    /\ parsed = NoReference
    /\ request = Undefined
    /\ strip = 0
    /\ filterSub = Undefined
    /\ error = Undefined
    /\ errorKind = "none"
    /\ requests = 0
    /\ todo = <<>>
    /\ fault = "none"
    /\ written = {}

\* the configurations: every combination of sources with all tools kept, and
\* every combination of opt-outs for the built-in template
CreateConfigs ==
    { ProjectTypeTemplate(r, f, AllTools) : r \in TemplateTexts, f \in TemplateTexts }
    \cup { ProjectTypeTemplate(Undefined, Undefined, flags) : flags \in Flags }

\* the templates: every tree with every manifest and the usual check.yml,
\* and the other check.yml files with the first manifest
Templates ==
    { x \in [tree : Trees, manifest : Manifests, check : CheckYamls] :
        \/ x.check = CheckYaml(TRUE, {"build", "lint", "types"})
        \/ x.manifest.sections = SectionNames /\ DOMAIN x.manifest.scripts = ScriptKeys }

InitCreate ==
    /\ DownloadIdle
    /\ ToolsIdle
    /\ config \in CreateConfigs
    /\ template \in Templates
    /\ cpc = "start"
    /\ sourcesRead = {}
    /\ tree = {}
    /\ manifest = NoPackageJson
    /\ manifestOut = NoPackageJson
    /\ cerror = "none"
    /\ checkYml = NoCheckYaml
    /\ checkIO = {}
    /\ packageWrites = 0

\* createTemplate fails at the statement `at`
FailAt(at) ==
    /\ cpc' = "failed"
    /\ cerror' = at
    /\ manifestOut' = PackageJsonAfterFailure(manifestOut, manifest')

\* createTemplate goes on to the statement `to`
GoOn(to) ==
    /\ cpc' = to
    /\ UNCHANGED <<cerror, manifestOut>>

\* "Materialize the template into the project directory": downloadFromRepo,
\* the copy of the local folder, or downloadTemplate; each may fail
Materialize ==
    /\ cpc = "start"
    /\ sourcesRead' = {SourceOf(config)}
    /\ UNCHANGED <<config, template, manifest, checkIO, packageWrites>>
    /\ \E ok \in BOOLEAN :
         IF ok
         THEN /\ tree' = template.tree
              /\ checkYml' = IF "check.yml" \in template.tree THEN template.check
                             ELSE NoCheckYaml
              /\ GoOn("materialized")
         ELSE /\ FailAt("materialize")
              /\ UNCHANGED <<tree, checkYml>>
    /\ UNCHANGED <<downloadVars, toolVars>>

\* fs.readFileString(package.json), JSON.parse
ReadPackageJson ==
    /\ cpc = "materialized"
    /\ IF "package.json" \in tree
       THEN /\ manifest' = template.manifest
            /\ GoOn("changesets")
       ELSE /\ UNCHANGED manifest
            /\ FailAt("package.json")
    /\ UNCHANGED <<config, sourcesRead, template, tree, checkYml, checkIO,
                   packageWrites>>
    /\ UNCHANGED <<downloadVars, toolVars>>

\* "Handle user preferences for changesets"
RemoveChangesets ==
    /\ cpc = "changesets"
    /\ IF config.withChangesets
       THEN /\ UNCHANGED <<tree, manifest>>
            /\ GoOn("flake")
       ELSE IF "patches" \notin tree
       THEN \* fs.readDirectory(patches) is not ignored
            /\ tree' = tree \ {".changeset"}
            /\ UNCHANGED manifest
            /\ FailAt("patches")
       ELSE IF ~(SectionNames \subseteq manifest.sections)
       THEN \* Object.keys(undefined) throws
            /\ tree' = tree \ {".changeset"}
            /\ UNCHANGED manifest
            /\ FailAt("Object.keys")
       ELSE /\ tree' = tree \ ({".changeset"} \cup
                         (IF config.withWorkflows THEN {"release.yml"} ELSE {}))
            /\ manifest' =
                 [manifest EXCEPT
                    !.patchedDependencies = WithoutKeys(@, ChangesetWord),
                    !.scripts = WithoutKeys(@, ChangesetWord),
                    !.devDependencies = WithoutKeys(@, ChangesetWord)]
            /\ GoOn("flake")
    /\ UNCHANGED <<config, sourcesRead, template, checkYml, checkIO, packageWrites>>
    /\ UNCHANGED <<downloadVars, toolVars>>

\* "Handle user preferences for Nix flakes": Effect.forEach stops at the first
\* file it cannot remove, and the failure is ignored
RemoveNixFlake ==
    /\ cpc = "flake"
    /\ cpc' = "eslint"
    /\ tree' = IF config.withNixFlake THEN tree
               ELSE IF ".envrc" \in tree THEN tree \ {".envrc", "flake.nix"}
               ELSE tree
    /\ UNCHANGED <<config, sourcesRead, template, manifest, manifestOut, cerror,
                   checkYml, checkIO, packageWrites>>
    /\ UNCHANGED <<downloadVars, toolVars>>

\* "Handle user preferences for ESLint"
RemoveESLint ==
    /\ cpc = "eslint"
    /\ IF config.withESLint
       THEN /\ UNCHANGED <<tree, manifest, checkYml, checkIO>>
            /\ GoOn("workflows")
       ELSE IF ~({"devDependencies", "scripts"} \subseteq manifest.sections)
       THEN /\ tree' = tree \ {"eslint.config.mjs"}
            /\ UNCHANGED <<manifest, checkYml, checkIO>>
            /\ FailAt("Object.keys")
       ELSE /\ tree' = tree \ {"eslint.config.mjs"}
            /\ manifest' =
                 [manifest EXCEPT
                    !.devDependencies = WithoutKeys(@, EslintWord),
                    !.scripts = WithoutKeys(@, LintWord)]
            /\ IF ~config.withWorkflows
               THEN /\ UNCHANGED <<checkYml, checkIO>>
                    /\ GoOn("workflows")
               ELSE IF "check.yml" \notin tree
               THEN \* fs.readFileString(check.yml) is not ignored
                    /\ checkIO' = checkIO \cup {"read"}
                    /\ UNCHANGED checkYml
                    /\ FailAt("check.yml")
               ELSE IF ~checkYml.hasJobs
               THEN \* delete undefined["lint"] throws
                    /\ checkIO' = checkIO \cup {"read"}
                    /\ UNCHANGED checkYml
                    /\ FailAt("jobs")
               ELSE /\ checkIO' = checkIO \cup {"read", "write"}
                    /\ checkYml' = [checkYml EXCEPT !.jobs = WithoutJob(@, "lint")]
                    /\ GoOn("workflows")
    /\ UNCHANGED <<config, sourcesRead, template, packageWrites>>
    /\ UNCHANGED <<downloadVars, toolVars>>

\* "Handle user preferences for GitHub workflows"
RemoveWorkflows ==
    /\ cpc = "workflows"
    /\ cpc' = "write"
    /\ tree' = IF config.withWorkflows THEN tree
               ELSE tree \ {".github", "release.yml", "check.yml"}
    /\ checkYml' = IF config.withWorkflows THEN checkYml ELSE NoCheckYaml
    /\ UNCHANGED <<config, sourcesRead, template, manifest, manifestOut, cerror,
                   checkIO, packageWrites>>
    /\ UNCHANGED <<downloadVars, toolVars>>

\* "Write out the updated package.json"
WritePackageJson ==
    /\ cpc = "write"
    /\ cpc' = "done"
    /\ manifestOut' = manifest
    /\ packageWrites' = packageWrites + 1
    /\ UNCHANGED <<config, sourcesRead, template, tree, manifest, cerror,
                   checkYml, checkIO>>
    /\ UNCHANGED <<downloadVars, toolVars>>

NextCreate ==
    \/ Materialize
    \/ ReadPackageJson
    \/ RemoveChangesets
    \/ RemoveNixFlake
    \/ RemoveESLint
    \/ RemoveWorkflows
    \/ WritePackageJson

SpecCreate == InitCreate /\ [][NextCreate]_vars

(***************************************************************************)
(* configureExpoApp: the prompts, one answer at a time.                    *)
(***************************************************************************)
MaxRetries == 2

\* what the user may type at a prompt
ExpoAnswers ==
    { <<>>, MyApp, <<"m", "y", "-", "a", "p", "p">>, <<"a", ".", "b">>, <<"C", "o", ".", "X">>,
      <<"9", "x">>, <<" ", "x", "+", "y">> }

\* app.json as found: no expo fields, valid ones, or invalid ones
ExpoManifests ==
    { NoExpoFields,
      ExpoFields(<<"A">>, <<"a">>, <<"a">>, <<"a", ".", "b">>, <<"a", ".", "b">>),
      ExpoFields(<<>>, <<>>, <<>>, <<"x">>, <<>>) }

InitExpo ==
    /\ DownloadIdle
    /\ CreateIdle
    /\ SlugIdle
    /\ GitIdle
    /\ ShimIdle
    /\ epc = "start"
    /\ hasAppJson \in BOOLEAN
    /\ expoIn \in (IF hasAppJson THEN ExpoManifests ELSE {NoExpoFields})
    /\ chosen = NoExpoFields
    /\ attempts = 0
    /\ appJsonOut = NoExpoFields
    /\ pkgNameOut = Undefined

\* const exists = yield* fs.exists(appJsonPath); if (!exists) return
ReadAppJson ==
    /\ epc = "start"
    /\ epc' = IF hasAppJson THEN "name" ELSE "done"
    /\ UNCHANGED <<hasAppJson, expoIn, chosen, attempts, appJsonOut, pkgNameOut>>
    /\ UNCHANGED notExpo

\* "Ask for display name"
AskName ==
    /\ epc = "name"
    /\ \E typed \in {<<>>, MyApp} :
         chosen' = [chosen EXCEPT
                      !.name = OrElse(Trim(PromptText(typed, currentName)), currentName)]
    /\ epc' = "slug"
    /\ UNCHANGED <<hasAppJson, expoIn, attempts, appJsonOut, pkgNameOut>>
    /\ UNCHANGED notExpo

\* the `sanitize` option configureExpoApp passes for the field
SanitizeOf(field, s) == IF field = "slug" THEN sanitizeSlug(s) ELSE Trim(s)

\* the `validate` option configureExpoApp passes for the field
ValidateOf(field, s) ==
    CASE field = "slug" -> isValidSlug(s)
      [] field = "scheme" -> isValidScheme(s)
      [] field = "bundleIdentifier" -> isValidBundleId(s)
      [] field = "package" -> isValidAndroidPackage(s)

\* one turn of the loop of askValidated for the prompt `at`: the answer is
\* sanitized, returned to `field` when it is valid, and asked again otherwise
AskValidated(at, next, field, initial) ==
    /\ epc = at
    /\ \E typed \in ExpoAnswers :
         LET value == SanitizeOf(field, PromptText(typed, initial))
         IN  IF Returns(ValidateOf(field, value))
             THEN /\ chosen' = [chosen EXCEPT ![field] = value]
                  /\ epc' = next
                  /\ attempts' = 0
             ELSE /\ attempts < MaxRetries
                  /\ attempts' = attempts + 1
                  /\ UNCHANGED <<chosen, epc>>
    /\ UNCHANGED <<hasAppJson, expoIn, appJsonOut, pkgNameOut>>
    /\ UNCHANGED notExpo

\* "Slug depends on name"
AskSlug ==
    AskValidated("slug", "scheme", "slug",
                 OrElse(currentSlug, OrElse(sanitizeSlug(chosen.name), currentSlug)))

\* "Scheme"
AskScheme ==
    AskValidated("scheme", "bundleIdentifier", "scheme",
                 OrElse(currentScheme, chosen.slug))

\* "iOS bundle identifier"
AskBundleIdentifier ==
    AskValidated("bundleIdentifier", "package", "bundleIdentifier",
                 currentBundleId)

\* "Android package"
AskAndroidPackage ==
    AskValidated("package", "write", "package",
                 OrElse(currentAndroidPackage, toAndroidPackage(chosen.bundleIdentifier)))

\* "Update app.json", "Update package.json name to npm-friendly slug"
WriteAppJson ==
    /\ epc = "write"
    /\ epc' = "done"
    /\ appJsonOut' = chosen
    /\ pkgNameOut' = chosen.slug
    /\ UNCHANGED <<hasAppJson, expoIn, chosen, attempts>>
    /\ UNCHANGED notExpo

NextExpo ==
    \/ ReadAppJson
    \/ AskName
    \/ AskSlug
    \/ AskScheme
    \/ AskBundleIdentifier
    \/ AskAndroidPackage
    \/ WriteAppJson

SpecExpo == InitExpo /\ [][NextExpo]_vars

(***************************************************************************)
(* finalizeGitignoreFiles(projectDir): visit(dir) renames at this level,   *)
(* then recurses into the subdirectories.  Every call of visit ignores its *)
(* own failure, so a failure ends the visit of that directory only.  The   *)
(* subdirectories a visit reaches are queued in front: what happens in one *)
(* directory does not depend on what happened in another.                  *)
(***************************************************************************)
\* a pass that renames over an existing .gitignore
NeedsRenameOverDot(files) == files.gi

\* if (hasGi) { if (!hasDot) tryRename(gi, dot) }
NeedsRename(files) == files.gi /\ files.dot = "none"

\* fs.rename(gi, dot)
Renamed(files) == IgnoreFiles(FALSE, "gitignore")

InitGitignore ==
    /\ DownloadIdle
    /\ CreateIdle
    /\ ExpoIdle
    /\ SlugIdle
    /\ ShimIdle
    /\ gpc = "visiting"
    /\ gitIn \in [Dirs -> {IgnoreFiles(gi, dot) : gi \in BOOLEAN, dot \in {"none", "own"}}]
    /\ gitFs = gitIn
    /\ gitStack = <<".">>
    /\ gitFaulted = FALSE

\* the prefixes of the subdirectories reached before `failed` fails: all of
\* them when the loop runs to its end, none when the directory is left
\* before the loop, a proper prefix when fs.stat fails inside it
Reached(dir, failed) ==
    LET subs == Subdirectories(dir)
    IN  CASE failed = "none" -> {subs}
          [] failed = "rename" -> {subs}
          [] failed = "stat" -> {SubSeq(subs, 1, k) : k \in 0..(Len(subs) - 1)}
          [] OTHER -> {<<>>}

\* one call of visit(dir), in which the call `failed` (if any) fails
Visit ==
    /\ gpc = "visiting"
    /\ gitStack # <<>>
    /\ LET dir == Head(gitStack)
       IN  \E failed \in {"none", "exists", "rename", "readDirectory", "stat"} :
             /\ failed = "rename" => NeedsRename(gitFs[dir])
             /\ gitFs' = IF failed \notin {"exists", "rename"} /\ NeedsRename(gitFs[dir])
                         THEN [gitFs EXCEPT ![dir] = Renamed(@)]
                         ELSE gitFs
             /\ \E subs \in Reached(dir, failed) : gitStack' = subs \o Tail(gitStack)
             /\ gitFaulted' = (gitFaulted \/ failed # "none")
    /\ UNCHANGED <<gpc, gitIn>>
    /\ UNCHANGED notGit

\* visit(projectDir) has returned
FinishGitignore ==
    /\ gpc = "visiting"
    /\ gitStack = <<>>
    /\ gpc' = "done"
    /\ UNCHANGED <<gitIn, gitFs, gitStack, gitFaulted>>
    /\ UNCHANGED notGit

NextGitignore == Visit \/ FinishGitignore

SpecGitignore == InitGitignore /\ [][NextGitignore]_vars

(***************************************************************************)
(* bin/create-effect-app.mjs: the shim that runs the TypeScript entry.     *)
(* tryRun returns the status of the child, and 1 when there is none (the   *)
(* command was not found, or the child was killed by a signal).            *)
(***************************************************************************)
\* the statuses a child may exit with
ExitCodes == {0, 1, 2, 127}

\* a fetching runner either gets the CLI to run, which exits with any status,
\* or fails before that with a status other than 0
FetchOutcomes ==
    { Outcome(TRUE, c) : c \in ExitCodes } \cup
    { Outcome(FALSE, c) : c \in ExitCodes \ {0} }

InitShim ==
    /\ DownloadIdle
    /\ CreateIdle
    /\ ExpoIdle
    /\ SlugIdle
    /\ GitIdle
    /\ shpc = "has-bun"
    /\ shimEnv \in [bun : BOOLEAN, tsx : BOOLEAN, local : ExitCodes,
                    pnpm : FetchOutcomes, npx : FetchOutcomes]
    /\ started = <<>>
    /\ cliRuns = 0
    /\ exitCode = 0
    /\ message = FALSE

\* if (code === 127 || code === 1)
TriesNpx(code) == code = 127 \/ code = 1

\* tryRun(cmd, [tsEntry, ...args]) for a runner with the given outcome
Run(runner, outcome) ==
    /\ started' = Append(started, runner)
    /\ cliRuns' = IF outcome.cli THEN cliRuns + 1 ELSE cliRuns
    /\ exitCode' = outcome.code

\* if (has("bun"))
HasBun ==
    /\ shpc = "has-bun"
    /\ shpc' = IF shimEnv.bun THEN "run-bun" ELSE "has-tsx"
    /\ UNCHANGED <<shimEnv, started, cliRuns, exitCode, message>>
    /\ UNCHANGED notShim

\* const code = tryRun("bun", [tsEntry, ...args]); process.exit(code)
RunBun ==
    /\ shpc = "run-bun"
    /\ Run("bun", Outcome(TRUE, shimEnv.local))
    /\ shpc' = "exited"
    /\ UNCHANGED <<shimEnv, message>>
    /\ UNCHANGED notShim

\* if (has("tsx"))
HasTsx ==
    /\ shpc = "has-tsx"
    /\ shpc' = IF shimEnv.tsx THEN "run-tsx" ELSE "pnpm"
    /\ UNCHANGED <<shimEnv, started, cliRuns, exitCode, message>>
    /\ UNCHANGED notShim

\* const code = tryRun("tsx", [tsEntry, ...args]); process.exit(code)
RunTsx ==
    /\ shpc = "run-tsx"
    /\ Run("tsx", Outcome(TRUE, shimEnv.local))
    /\ shpc' = "exited"
    /\ UNCHANGED <<shimEnv, message>>
    /\ UNCHANGED notShim

\* let code = tryRun("pnpm", ["dlx", "bun", tsEntry, ...args])
RunPnpmDlx ==
    /\ shpc = "pnpm"
    /\ Run("pnpm", shimEnv.pnpm)
    /\ shpc' = IF TriesNpx(exitCode') THEN "npx" ELSE "report"
    /\ UNCHANGED <<shimEnv, message>>
    /\ UNCHANGED notShim

\* code = tryRun("npx", ["bun", tsEntry, ...args])
RunNpx ==
    /\ shpc = "npx"
    /\ Run("npx", shimEnv.npx)
    /\ shpc' = "report"
    /\ UNCHANGED <<shimEnv, message>>
    /\ UNCHANGED notShim

\* if (code !== 0) console.error(...); process.exit(code)
Report ==
    /\ shpc = "report"
    /\ message' = (exitCode # 0)
    /\ shpc' = "exited"
    /\ UNCHANGED <<shimEnv, started, cliRuns, exitCode>>
    /\ UNCHANGED notShim

NextShim ==
    \/ HasBun
    \/ RunBun
    \/ HasTsx
    \/ RunTsx
    \/ RunPnpmDlx
    \/ RunNpx
    \/ Report

SpecShim == InitShim /\ [][NextShim]_vars

(***************************************************************************)
(* sanitizeSlug applied to a name, and again to the suggestion it made     *)
(* when the prompt's default is taken.                                     *)
(***************************************************************************)
MaxSlugLen == 4

\* the characters names are built from: a letter in both cases, a digit, the
\* dash, white space and a character outside the slug alphabet
SlugChars == {"a", "A", "0", "-", " ", "!"}

SlugInputs == UNION { [1..n -> SlugChars] : n \in 0..MaxSlugLen }

InitSlug ==
    /\ DownloadIdle
    /\ CreateIdle
    /\ ExpoIdle
    /\ GitIdle
    /\ ShimIdle
    /\ slugRun \in { [pc |-> "start", input |-> s, once |-> <<>>, twice |-> <<>>] :
                       s \in SlugInputs }

\* const suggestedSlug = sanitizeSlug(name)
Suggest ==
    /\ slugRun.pc = "start"
    /\ slugRun' = [slugRun EXCEPT !.pc = "suggested",
                                  !.once = sanitizeSlug(slugRun.input)]
    /\ UNCHANGED notSlug

\* const value = options.sanitize(input), the input being the suggestion
SanitizeSuggestion ==
    /\ slugRun.pc = "suggested"
    /\ slugRun' = [slugRun EXCEPT !.pc = "sanitized",
                                  !.twice = sanitizeSlug(slugRun.once)]
    /\ UNCHANGED notSlug

NextSlug ==
    \/ Suggest
    \/ SanitizeSuggestion

SpecSlug == InitSlug /\ [][NextSlug]_vars

(***************************************************************************)
(* Properties of parseGitHubSpec and of the archive request.               *)
(***************************************************************************)
\* parseGitHubSpec has returned for the spec of this run
Returned == op = "repo" /\ pc # "start"

AtV == <<"@", "v">>

\* the input without its leading whitespace or prefix
Unprefixed == BuildSpec([input EXCEPT !.lead = <<>>])

\* parts[from..] joined by "/", absent when there is none
JoinedFrom(parts, from) ==
    IF Len(parts) < from THEN Undefined
    ELSE Join(SubSeq(parts, from, Len(parts)), Slash)

\* the input is owner/repo[/s1/.../sn][@ref] with non-empty components
WellFormedShorthand ==
    /\ input.lead = <<>> /\ input.scheme = <<>> /\ input.at0 = <<>>
    /\ Len(input.segs) >= 2
    /\ \A i \in 1..Len(input.segs) : input.segs[i] # <<>>
    /\ input.suffix \in {<<>>, AtV}

\* C1: for every shorthand input owner/repo[/s1/.../sn][@ref] with non-empty
\* components, parseGitHubSpec returns owner, repo, subdir = s1/.../sn (absent
\* when n = 0) and ref (absent when there is no @ref suffix).
C1_ShorthandParsed ==
    (Returned /\ WellFormedShorthand) =>
        parsed = Reference(input.segs[1], input.segs[2],
                           IF input.suffix = <<>> THEN Undefined ELSE Tail(input.suffix),
                           JoinedFrom(input.segs, 3))

C1_Witness ==
    /\ Returned /\ WellFormedShorthand
    /\ Len(input.segs) = 4
    /\ input.suffix = AtV
    /\ parsed.ref = <<"v">>
    /\ parsed.subdir = input.segs[3] \o Slash \o input.segs[4]

\* the non-empty path segments of a shorthand string given by its components
\* (a leading "@" belongs to the first segment)
ShorthandSegments(at0, segs) ==
    LET glued == IF segs = <<>> THEN <<at0>>
                 ELSE <<at0 \o Head(segs)>> \o Tail(segs)
    IN  SelectSeq(glued, LAMBDA g : g # <<>>)

\* the reference that path-splitting gives, with the ref already decided
PathSplit(segments, ref) ==
    IF Len(segments) < 2 THEN NoReference
    ELSE Reference(segments[1], segments[2], ref, JoinedFrom(segments, 3))

\* the input is in shorthand form, without prefix or leading whitespace
PlainShorthand == input.lead = <<>> /\ input.scheme = <<>>

\* the text before the suffix of a shorthand input
ShorthandPath == input.at0 \o Join(input.segs, Slash)

\* C2: in shorthand form the ref delimiter is the last "@" and only when its
\* index is > 0: what follows it is the ref and what precedes it is path-split;
\* when the only "@" is at index 0 no ref is extracted and the whole string is
\* path-split.
C2_LastAtDelimitsRef ==
    (Returned /\ PlainShorthand) =>
        IF input.suffix # <<>> /\ ShorthandPath # <<>>
        THEN parsed = PathSplit(ShorthandSegments(input.at0, input.segs),
                                Tail(input.suffix))
        ELSE parsed = PathSplit(ShorthandSegments(input.at0 \o input.suffix, input.segs),
                                Undefined)

C2_Witness ==
    /\ Returned /\ PlainShorthand
    /\ input.at0 = <<"@">> /\ input.suffix = <<>>
    /\ input.segs = <<<<"o">>, <<"o">>, <<"o">>>>
    /\ parsed = Reference(<<"@", "o">>, <<"o">>, Undefined, <<"o">>)

\* C3 as stated: for every input s, gh: + s and github: + s give the result of s.
C3_PrefixTransparent ==
    Returned =>
        /\ parseGitHubSpec(GhPrefix \o spec) = parsed
        /\ parseGitHubSpec(GithubPrefix \o spec) = parsed

\* s begins neither with whitespace nor with one of the two prefixes
NoLeadingPrefix(s) ==
    /\ s = <<>> \/ Head(s) \notin Whitespace
    /\ ~(Len(s) >= 3 /\ SubSeq(s, 1, 3) = GhPrefix)
    /\ ~(Len(s) >= 7 /\ SubSeq(s, 1, 7) = GithubPrefix)

\* C3 (amended): for every input s that begins neither with whitespace nor with
\* gh: or github:, gh: + s and github: + s give exactly the result of s.
C3_PrefixTransparentUnprefixed ==
    (Returned /\ NoLeadingPrefix(spec)) =>
        /\ parseGitHubSpec(GhPrefix \o spec) = parsed
        /\ parseGitHubSpec(GithubPrefix \o spec) = parsed

C3_Witness ==
    /\ Returned /\ NoLeadingPrefix(spec)
    /\ input.scheme = HttpsScheme
    /\ parsed.defined
    /\ parsed.ref # Undefined
    /\ parseGitHubSpec(GithubPrefix \o spec) = parsed

\* the input is in URL form (after its leading whitespace or prefix)
UrlInput == input.scheme # <<>>

\* the non-empty segments of the path of the input's URL
UrlPathSegments ==
    SelectSeq(Split(UrlParse(Unprefixed).pathname, "/"), LAMBDA g : g # <<>>)

\* the input is a well-formed URL whose host is github.com
GitHubUrl ==
    /\ UrlInput
    /\ UrlParse(Unprefixed).ok
    /\ UrlParse(Unprefixed).hostname = GithubCom

\* C4: for every well-formed http(s) URL on github.com whose path has the
\* non-empty segments p1..pn (n >= 2), owner = p1 and repo = p2; if p3 = tree
\* and n >= 4 then ref = p4 and subdir = p5/.../pn (absent when n = 4);
\* otherwise ref is absent and subdir = p3/.../pn (absent when n = 2).
C4_UrlParsed ==
    (Returned /\ GitHubUrl /\ Len(UrlPathSegments) >= 2) =>
        LET p == UrlPathSegments
        IN  IF Len(p) >= 4 /\ p[3] = TreeWord
            THEN parsed = Reference(p[1], p[2], p[4], JoinedFrom(p, 5))
            ELSE parsed = Reference(p[1], p[2], Undefined, JoinedFrom(p, 3))

C4_Witness ==
    /\ Returned /\ GitHubUrl
    /\ input.segs = <<<<"o">>, <<"o">>, TreeWord, <<"o">>, <<"o">>>>
    /\ input.suffix = AtV
    /\ parsed = Reference(<<"o">>, <<"o">>, <<"o">>, <<"o", "@", "v">>)

\* C5 as stated: a URL-form input is parsed successfully only if the host of
\* the URL equals github.com, compared case-insensitively.
C5_HostEqualsGitHub ==
    (Returned /\ UrlInput /\ parsed.defined) =>
        ToLowerCase(UrlParse(Unprefixed).hostname) = GithubCom

\* the non-empty path segments the parser is to find in the input
PathSegmentsOfInput ==
    IF UrlInput THEN UrlPathSegments
    ELSE IF input.suffix # <<>> /\ ShorthandPath # <<>>
         THEN ShorthandSegments(input.at0, input.segs)
         ELSE ShorthandSegments(input.at0 \o input.suffix, input.segs)

\* C6: parseGitHubSpec fails for every input with fewer than 2 non-empty path
\* segments, in both forms, and for every http(s) input that is not a
\* well-formed URL; it always returns, and what it returns is either no
\* reference at all or a reference with both owner and repo.
C6_FailsWithoutOwnerAndRepo ==
    Returned =>
        /\ (UrlInput /\ ~UrlParse(Unprefixed).ok) => ~parsed.defined
        /\ ((UrlInput => UrlParse(Unprefixed).ok) /\ Len(PathSegmentsOfInput) < 2)
               => ~parsed.defined
        /\ ~parsed.defined => (parsed = NoReference /\ pc = "failed")
        /\ parsed.defined =>
               (parsed.owner # Undefined /\ parsed.repo # Undefined
                /\ request # Undefined)

C6_Witness ==
    /\ Returned /\ UrlInput
    /\ ~UrlParse(Unprefixed).ok
    /\ Len(input.segs) >= 2
    /\ pc = "failed"

HasSlash(s) == \E i \in 1..Len(s) : s[i] = "/"

\* C7: in every reference returned, owner and repo are non-empty and hold no
\* "/", and subdir, when present, is non-empty, neither starts nor ends with
\* "/" and has no empty segment.
C7_ReferenceShape ==
    (Returned /\ parsed.defined) =>
        /\ parsed.owner # <<>> /\ ~HasSlash(parsed.owner)
        /\ parsed.repo # <<>> /\ ~HasSlash(parsed.repo)
        /\ parsed.subdir # Undefined =>
               /\ parsed.subdir # <<>>
               /\ Head(parsed.subdir) # "/"
               /\ parsed.subdir[Len(parsed.subdir)] # "/"
               /\ \A i \in 1..(Len(parsed.subdir) - 1) :
                      ~(parsed.subdir[i] = "/" /\ parsed.subdir[i + 1] = "/")

C7_Witness ==
    /\ Returned /\ parsed.defined
    /\ input.segs = <<<<>>, <<"o">>, <<>>, <<"o">>, <<"o">>>>
    /\ input.suffix = <<>>
    /\ parsed.subdir = <<"o">>

\* C8 as stated: in every reference returned, no segment of subdir is "." or "..".
C8_NoDotSegments ==
    (Returned /\ parsed.defined /\ parsed.subdir # Undefined) =>
        \A i \in 1..Len(Split(parsed.subdir, "/")) :
            Split(parsed.subdir, "/")[i] \notin {<<".">>, <<".", ".">>}

CountSlashes(s) == Cardinality({i \in 1..Len(s) : s[i] = "/"})

\* C9: downloadFromRepo requests exactly /{owner}/{repo}/tar.gz/{commit-ish},
\* owner and repo those of the parsed reference, commit-ish the parsed ref when
\* one was given and main when it is absent; nothing is requested when the
\* spec does not parse.
C9_RequestPath ==
    /\ (op = "repo" /\ request # Undefined) =>
           request = <<"/">> \o parsed.owner \o <<"/">> \o parsed.repo
                       \o <<"/", "t", "a", "r", ".", "g", "z", "/">>
                       \o (IF parsed.ref # Undefined THEN parsed.ref
                           ELSE <<"m", "a", "i", "n">>)
    /\ (op = "repo" /\ request # Undefined /\ WellFormedShorthand) =>
           request = <<"/">> \o input.segs[1] \o <<"/">> \o input.segs[2]
                       \o <<"/", "t", "a", "r", ".", "g", "z", "/">>
                       \o (IF input.suffix = AtV THEN <<"v">> ELSE <<"m", "a", "i", "n">>)
    /\ (op = "repo" /\ ~parsed.defined) => (request = Undefined /\ requests = 0)

C9_Witness ==
    /\ op = "repo" /\ pc = "requested"
    /\ parsed.ref = Undefined
    /\ request = <<"/", "o", "/", "t", "r", "e", "e", "/", "t", "a", "r", ".", "g", "z",
                   "/", "m", "a", "i", "n">>

\* C10: the strip count downloadFromRepo passes is 1 when the subdirectory is
\* absent and 1 + its number of "/"-separated segments otherwise; for a
\* built-in template or example it is 1 + the number of segments of
\* templates/<name> (resp. examples/<name>).
C10_StripCount ==
    /\ (op = "repo" /\ request # Undefined) =>
           strip = (IF parsed.subdir = Undefined THEN 1
                    ELSE 1 + (CountSlashes(parsed.subdir) + 1))
    /\ (op \in {"template", "example"} /\ request # Undefined) =>
           strip = 1 + (1 + (CountSlashes(spec) + 1))

C10_Witness ==
    /\ op = "repo" /\ pc = "requested"
    /\ input.scheme = <<>>
    /\ parsed.subdir = <<".", ".", "/", "o">>
    /\ strip = 3

(***************************************************************************)
(* Properties of the extraction.                                           *)
(***************************************************************************)
\* the entries of the response the extraction has consumed so far
Consumed ==
    IF pc \in {"start", "requested"} THEN <<>>
    ELSE SubSeq(remote.entries, 1, Len(remote.entries) - Len(todo))

\* the path of an archive entry after its first (wrapper) segment
WithoutWrapper(p) ==
    IF IndexOf(p, "/") < 0 THEN <<>> ELSE SliceFrom(p, IndexOf(p, "/") + 1)

\* is `inner` the directory `dir` or a path below it
AtOrUnder(inner, dir) == inner = dir \/ StartsWith(inner, dir \o <<"/">>)

\* C11: in downloadFromRepo an entry is written only if its path without the
\* wrapper segment is the requested subdirectory or begins with it followed
\* by "/" (a sibling sharing only a string prefix is rejected); when no
\* subdirectory is requested every entry consumed is written.
C11_RepoFilter ==
    op = "repo" =>
        /\ \A w \in written :
               filterSub # Undefined => AtOrUnder(WithoutWrapper(w.entry), filterSub)
        /\ filterSub = Undefined =>
               \A i \in 1..Len(Consumed) : \E w \in written : w.entry = Consumed[i]

C11_Witness ==
    /\ op = "repo" /\ pc = "done"
    /\ filterSub = <<"o">>
    /\ remote.entries = << <<"w", "/", "o", "x", "/", "f">>, <<"w", "/", "o", "/", "f">> >>
    /\ written = {Extracted(<<"w", "/", "o", "/", "f">>, <<"f">>)}

\* C12 as stated: in the remote extraction of a built-in template (resp.
\* example) an entry is written only if its path without the wrapper segment
\* is templates/<name> (resp. examples/<name>) or begins with it followed by
\* "/"; entries of a sibling directory whose name starts with <name> are not
\* written.
C12_CatalogFilter ==
    (op \in {"template", "example"} /\ ~hasLocal) =>
        \A w \in written :
            AtOrUnder(WithoutWrapper(w.entry), CatalogDir(op) \o <<"/">> \o spec)

\* C13 as stated: when the archive request of downloadFromRepo returns a
\* non-success status, the operation fails with the descriptive error naming
\* owner, repo, commit-ish and subdirectory, and no entry is written.
C13_StatusFailureDescribed ==
    (op = "repo" /\ pc = "failed" /\ requests > 0 /\ ~StatusOk(remote.status)) =>
        /\ errorKind = "ValidationError"
        /\ error = FailedRepoText(parsed)
        /\ written = {}

\* C14: when the spec does not parse, downloadFromRepo fails with the one
\* failure kind of invalid specs, its message carries the input string as it
\* was given, no request is issued and nothing is extracted.
C14_InvalidSpecFailsFirst ==
    (Returned /\ ~parsed.defined) =>
        /\ pc = "failed"
        /\ errorKind = "ValidationError"
        /\ error = InvalidSpecMessage \o BuildSpec(input)
        /\ requests = 0 /\ request = Undefined
        /\ Consumed = <<>> /\ written = {}

C14_Witness ==
    /\ Returned /\ ~parsed.defined
    /\ input.lead = <<" ">>
    /\ input.scheme = HttpsScheme /\ input.host # GithubCom
    /\ Len(input.segs) = 2
    /\ error = InvalidSpecMessage \o <<" ">> \o Unprefixed

\* C15: a materialization issues at most one archive request; a failed
\* operation takes no further step (no retry), and no step, the failing one
\* included, removes a file already written to the destination.
C15_OneRequestNoRollback ==
    [][ /\ pc # "failed"
        /\ requests' >= requests /\ requests' <= 1
        /\ written \subseteq written' ]_vars

C15_Witness ==
    /\ pc = "failed" /\ fault = "sink"
    /\ requests = 1
    /\ written # {}
    /\ todo # <<>>

\* C16: downloadFromRepo ends in success whenever the status is a success and
\* the stream did not fault, whatever the filter let through: while entries
\* are dropped no error is raised, and a run that wrote nothing ends as one
\* that wrote something.
C16_EmptyResultSucceeds ==
    (op = "repo" /\ requests > 0 /\ StatusOk(remote.status) /\ fault = "none") =>
        /\ error = Undefined /\ errorKind = "none"
        /\ pc \in {"requested", "extracting", "done"}

C16_Witness ==
    /\ op = "repo" /\ pc = "done"
    /\ filterSub = <<"o", "/", "t", "r", "e", "e">>
    /\ Len(remote.entries) = 2
    /\ written = {}

\* C17: for a built-in template or example, when the same-named directory
\* exists locally its immediate contents are copied to the destination and no
\* request is made; the archive is requested only when it does not exist.
C17_LocalBeforeRemote ==
    op \in {"template", "example"} =>
        /\ (hasLocal /\ pc # "start") =>
               /\ pc = "done"
               /\ requests = 0 /\ request = Undefined
               /\ written = { Extracted(name, name) : name \in localDir }
        /\ requests > 0 => ~hasLocal
        /\ (~hasLocal /\ pc # "start") =>
               (requests = 1 /\ request = CatalogArchivePath)

C17_Witness ==
    /\ op = "example" /\ hasLocal /\ pc = "done"
    /\ written # {}
    /\ requests = 0

(***************************************************************************)
(* Properties of createTemplate.                                           *)
(***************************************************************************)
\* C18 as stated: createTemplate reads exactly one template source, the
\* repository when templateRepo is provided (whatever templateFolder is),
\* otherwise the folder when templateFolder is provided, otherwise the
\* built-in template; no other source is read.
C18_SourcePrecedence ==
    cpc \notin {"idle", "start"} =>
        sourcesRead =
            { IF config.templateRepo # Undefined THEN "repo"
              ELSE IF config.templateFolder # Undefined THEN "folder"
              ELSE "catalog" }

\* the files and directories removed for the tools opted out of
OptOutFiles ==
    {".changeset", "patches", ".envrc", "flake.nix", "eslint.config.mjs",
     ".github", "release.yml"}

\* C19 as stated: when all that the template lacks are files or directories
\* of tools that are opted out of (no .changeset, no patches, no flake.nix,
\* no .github, ...), the failed removals are swallowed and createTemplate
\* does not fail once the template is materialized.
C19_CleanupBestEffort ==
    ( /\ cpc \notin {"idle", "start"}
      /\ cerror # "materialize"
      /\ (FileNames \ template.tree) \subseteq
             (OptOutFiles \cup (IF config.withWorkflows THEN {} ELSE {"check.yml"}))
      /\ template.manifest.sections = SectionNames
      /\ template.check.hasJobs )
    => cpc # "failed"

\* s has w as a substring
Contains(s, w) ==
    \E i \in 1..(Len(s) + 1) : \E j \in (i - 1)..Len(s) : SubSeq(s, i, j) = w

\* `after` is `before` without exactly the keys that are `removable`
PrunedBy(before, after, removable(_)) ==
    /\ DOMAIN after = {k \in DOMAIN before : ~removable(k)}
    /\ \A k \in DOMAIN after : after[k] = before[k]

C29_ManifestWrittenLast ==
    /\ packageWrites <= 1
    /\ packageWrites = 1 <=> cpc = "done"
    /\ cpc # "done" => manifestOut = NoPackageJson
    /\ (cpc = "failed" /\ cerror # "materialize") =>
           (packageWrites = 0 /\ manifestOut = NoPackageJson)

C29_Witness ==
    /\ cpc = "failed" /\ cerror = "check.yml"
    /\ ~config.withChangesets
    /\ manifest # template.manifest
    /\ DOMAIN manifest.scripts = {<<"b", "u", "i", "l", "d">>}
    /\ packageWrites = 0

(***************************************************************************)
(* Properties of configureExpoApp and sanitizeSlug.                        *)
(***************************************************************************)
\* s matches ^[first][rest]*$
StartsThenOnly(s, first, rest) ==
    Len(s) >= 1 /\ s[1] \in first /\ \A i \in 2..Len(s) : s[i] \in rest

\* s is a dotted identifier of two segments or more: no empty segment, each
\* segment a letter followed by letters and digits
Dotted(s) ==
    /\ \E i \in 1..Len(s) : s[i] = "."
    /\ s[1] # "." /\ s[Len(s)] # "."
    /\ \A i \in 1..Len(s) :
           /\ s[i] \in Lower \cup Upper \cup Digits \cup {"."}
           /\ (i = 1 \/ s[i - 1] = ".") => s[i] \in Lower \cup Upper

\* the four validated fields and what each must look like
LooksValid(field, s) ==
    CASE field = "slug" -> StartsThenOnly(s, Digits \cup Lower, Digits \cup Lower \cup {"-"})
      [] field = "scheme" ->
           StartsThenOnly(s, Lower, Digits \cup Lower \cup {"+", ".", "-"})
      [] field = "bundleIdentifier" -> Dotted(s)
      [] field = "package" -> Dotted(s) /\ \A i \in 1..Len(s) : s[i] \notin Upper

ValidatedFields == {"slug", "scheme", "bundleIdentifier", "package"}

\* C22: when configureExpoApp has completed for a project with app.json, the
\* slug, scheme, iOS bundle identifier and Android package written match
\* their patterns and the name written to package.json is the slug;
\* askValidated returns only values that pass the validator, and after a
\* rejected answer the same prompt is asked again.
C22_ExpoValuesValidated ==
    /\ \A field \in ValidatedFields :
           chosen[field] # Undefined => LooksValid(field, chosen[field])
    /\ attempts > 0 => (epc \in ValidatedFields /\ chosen[epc] = Undefined)
    /\ (epc = "done" /\ hasAppJson) =>
           /\ \A field \in ValidatedFields :
                  appJsonOut[field] # Undefined /\ LooksValid(field, appJsonOut[field])
           /\ pkgNameOut = appJsonOut.slug

C22_Witness ==
    /\ epc = "done" /\ hasAppJson
    /\ expoIn.bundleIdentifier = <<"x">>
    /\ appJsonOut.slug = <<"m", "y", "-", "a", "p", "p">>
    /\ appJsonOut.scheme = <<"x", "+", "y">>
    /\ appJsonOut.bundleIdentifier = <<"C", "o", ".", "X">>
    /\ appJsonOut.package = <<"a", ".", "b">>
    /\ pkgNameOut = <<"m", "y", "-", "a", "p", "p">>

(***************************************************************************)
(* Properties of finalizeGitignoreFiles.                                   *)
(***************************************************************************)
\* every directory that held gitignore and no .gitignore now holds the
\* content of gitignore as .gitignore, and no gitignore
AllRenamed ==
    \A d \in Dirs :
        (gitIn[d].gi /\ gitIn[d].dot = "none") =>
            (gitFs[d].dot = "gitignore" /\ ~gitFs[d].gi)

\* a .gitignore that was there keeps its content
NoneOverwritten == \A d \in Dirs : gitIn[d].dot = "own" => gitFs[d].dot = "own"

C24_NoDuplicateGitignore ==
    gpc = "done" => \A d \in Dirs : ~(gitFs[d].gi /\ gitFs[d].dot # "none")

(***************************************************************************)
(* Properties of the bin shim.                                             *)
(***************************************************************************)
\* the runner was started with the TypeScript entry
Started(runner) == \E i \in 1..Len(started) : started[i] = runner

\* what the runner last started returned
LastOutcome ==
    LET last == started[Len(started)]
    IN  CASE last = "pnpm" -> shimEnv.pnpm
          [] last = "npx" -> shimEnv.npx
          [] OTHER -> Outcome(TRUE, shimEnv.local)

\* C25 as stated: the runners are tried in the order bun, tsx, pnpm dlx bun,
\* npx bun, a later one started only when every earlier one was unavailable
\* (could not run the CLI); the process exits with the exit code of the last
\* runner started; the message is printed only when that code is not 0
\* after the fetching runners.
C25_RunnerOrder ==
    /\ Started("tsx") => ~shimEnv.bun
    /\ Started("pnpm") => (~shimEnv.bun /\ ~shimEnv.tsx)
    /\ Started("npx") => (~shimEnv.bun /\ ~shimEnv.tsx /\ ~shimEnv.pnpm.cli)
    /\ shpc = "exited" => exitCode = LastOutcome.code
    /\ message => (exitCode # 0 /\ Started("pnpm"))

\* C26 as stated: the CLI runs at most once per invocation of the shim.
C26_CliRunsOnce == cliRuns <= 1

(***************************************************************************)
(* Further properties of the reference and of the extraction.              *)
(***************************************************************************)
\* C27 as stated: in every reference returned, ref is absent or non-empty,
\* so the commit-ish of the request path is never empty, in particular for
\* an input ending in "@".
C27_RefNonEmpty ==
    /\ (Returned /\ parsed.defined) => (parsed.ref = Undefined \/ parsed.ref # <<>>)
    /\ (op = "repo" /\ request # Undefined) => request[Len(request)] # "/"

\* the wrapper segment of an archive entry and the requested subdirectory,
\* each followed by "/"
WrapperAndSubdir(e) ==
    SliceTo(e, IndexOf(e, "/") + 1)
        \o (IF filterSub = Undefined THEN <<>> ELSE filterSub \o <<"/">>)

\* does the entry lie in the requested subdirectory (anywhere, when none)
InSubdirectory(e) ==
    filterSub = Undefined \/ AtOrUnder(WithoutWrapper(e), filterSub)

\* C28: in downloadFromRepo the filter and the strip count agree: every entry
\* that passes the filter has at least strip-count leading segments, the
\* wrapper followed by the segments of the subdirectory, so the path written
\* is exactly the entry's path relative to the requested subdirectory: it
\* keeps no wrapper or subdirectory segment and loses none of its own.
C28_FilterAndStripAgree ==
    op = "repo" =>
        /\ \A i \in 1..Len(Consumed) :
               InSubdirectory(Consumed[i]) =>
                   LET parts == Split(Consumed[i], "/")
                   IN  /\ Len(parts) >= strip
                       /\ filterSub # Undefined =>
                              SubSeq(parts, 2, strip) = Split(filterSub, "/")
        /\ \A w \in written :
               /\ InSubdirectory(w.entry)
               /\ w.entry = WrapperAndSubdir(w.entry) \o w.path

C28_Witness ==
    /\ op = "repo" /\ pc = "done"
    /\ filterSub = <<"o">>
    /\ strip = 2
    /\ Extracted(<<"w", "/", "o", "/", "t", "r", "e", "e", "/", "f">>,
                 <<"t", "r", "e", "e", "/", "f">>) \in written
    /\ \E i \in 1..Len(Consumed) : Consumed[i] = <<"w", "/", "o", "/">>

(***************************************************************************)
(* Properties of sanitizeSlug.                                             *)
(***************************************************************************)
\* C30: for every input sanitizeSlug returns the empty string or a string
\* that satisfies isValidSlug (a digit or lowercase letter followed by
\* digits, lowercase letters and dashes), and sanitizing a result again
\* returns it unchanged.
C30_SanitizeSlug ==
    /\ slugRun.pc \in {"suggested", "sanitized"} =>
           \/ slugRun.once = <<>>
           \/ /\ isValidSlug(slugRun.once)
              /\ slugRun.once[1] \in Digits \cup Lower
              /\ \A i \in 1..Len(slugRun.once) :
                     slugRun.once[i] \in Digits \cup Lower \cup {"-"}
    /\ slugRun.pc = "sanitized" => slugRun.twice = slugRun.once

C30_Witness ==
    /\ slugRun.pc = "sanitized"
    /\ slugRun.input = <<"-", "A", "!", "-">>
    /\ slugRun.once = <<"a", "-">>
    /\ slugRun.twice = <<"a", "-">>

====
